---- MODULE Spec2Model ----
(***************************************************************************)
(* A model of the Pratt parser of interpret-deez (src/src/parser/parser.rs) *)
(*                                                                         *)
(* The parser is a struct { lexer, current_token, peeking_token, errors }. *)
(* Every parse function of the source is an operator that takes the parser *)
(* state p and returns the parser state after the call together with the   *)
(* Result it returns: [p, ok, v], ok = TRUE for Ok(v), FALSE for Err.      *)
(* The loop of parse_program is the state machine: one action parses the   *)
(* next top-level statement, one resynchronises (advance_tokens), one      *)
(* returns the program.                                                    *)
(***************************************************************************)
EXTENDS Integers, Sequences, FiniteSets, TLC

VARIABLES
    input,          \* the token sequence the lexer produces before the end-marker
    lexer,          \* Parser.lexer: number of tokens drawn from the lexer so far
    current_token,  \* Parser.current_token
    peeking_token,  \* Parser.peeking_token
    errors,         \* Parser.errors
    program,        \* program.statements of parse_program
    pc,             \* position in parse_program: "statement", "advance", "done"
    calls,          \* history: number of next_token calls so far
    sync,           \* history: after every next_token so far the two fields were the
                    \*   tokens at positions calls and calls + 1 of the stream
    progress,       \* history: every completed loop iteration so far consumed a token
    attempts,       \* history: number of top-level parse_statement calls so far
    starts,         \* history: stream position at which each program statement began
    last,           \* history: the latest top-level parse_statement call: the stream
                    \*   position it began at, whether it returned Ok, and the two
                    \*   token fields when it returned
    given           \* what the input was written from: the family of inputs it
                    \*   belongs to and the syntax trees it renders

vars == <<input, lexer, current_token, peeking_token, errors, program, pc,
          calls, sync, progress, attempts, starts, last, given>>

----------------------------------------------------------------------------
(* Tokens: a kind and, for identifiers and integer literals, the text.      *)
(* An integer literal's text is its sequence of decimal digits.             *)

T(kind) == [k |-> kind, v |-> ""]
Ident(name) == [k |-> "Identifier", v |-> name]
Integer(digits) == [k |-> "Integer", v |-> digits]
EOF == T("EOF")

(* Shorthands for writing inputs. *)
tLet == T("Let")
tReturn == T("Return")
tFn == T("Function")
tIf == T("If")
tElse == T("Else")
tTrue == T("True")
tFalse == T("False")
tAssign == T("Assign")
tPlus == T("Plus")
tMinus == T("Minus")
tBang == T("Bang")
tStar == T("Asterisk")
tSlash == T("Slash")
tLT == T("LT")
tGT == T("GT")
tEq == T("Eq")
tNotEq == T("NotEq")
tComma == T("Comma")
tSemi == T("Semicolon")
tLP == T("LParen")
tRP == T("RParen")
tLB == T("LBrace")
tRB == T("RBrace")

----------------------------------------------------------------------------
(* Precedence levels, low to high (the enum of parser::precedence).         *)

LOWEST == 1
EQUALS == 2
LESSGREATER == 3
SUM == 4
PRODUCT == 5
PREFIX == 6
CALL == 7

\* Precedence::from(&Token): tokens with no infix meaning map to LOWEST.
PrecedenceFrom(token) ==
    CASE token.k \in {"Eq", "NotEq"} -> EQUALS
      [] token.k \in {"LT", "GT"} -> LESSGREATER
      [] token.k \in {"Plus", "Minus"} -> SUM
      [] token.k \in {"Asterisk", "Slash"} -> PRODUCT
      [] token.k = "LParen" -> CALL
      [] OTHER -> LOWEST

----------------------------------------------------------------------------
(* The lexer, seen from the parser: the tokens of the input in order, then  *)
(* the end-marker on every further call.                                    *)

\* The token at 0-based position i of the lexer's stream.
Stream(i) == IF i < Len(input) THEN input[i + 1] ELSE EOF

\* Lexer::next_token: the token returned with the cursor at position lx.
LexerNextToken(lx) == Stream(lx)

\* The cursor after Lexer::next_token; it stays put once the input is exhausted.
LexerAdvance(lx) == IF lx < Len(input) THEN lx + 1 ELSE lx

----------------------------------------------------------------------------
(* Parser state and results.                                                *)

\* Parser::new: two tokens are drawn from the lexer.
NewParser ==
    [current_token |-> LexerNextToken(0),
     peeking_token |-> LexerNextToken(LexerAdvance(0)),
     lexer |-> LexerAdvance(LexerAdvance(0)),
     calls |-> 0, sync |-> TRUE, progress |-> TRUE]

\* NextToken drawing two tokens from the lexer and keeping the second
NextTokenDrawsTwice(p) ==
    [p EXCEPT !.current_token = p.peeking_token,
              !.peeking_token = LexerNextToken(LexerAdvance(p.lexer)),
              !.lexer = LexerAdvance(LexerAdvance(p.lexer)),
              !.calls = p.calls + 1,
              !.sync = p.sync /\ p.peeking_token = Stream(p.calls + 1)
                              /\ LexerNextToken(LexerAdvance(p.lexer)) = Stream(p.calls + 2)]

\* Parser::next_token: swap the two fields, then overwrite peeking_token with a
\* fresh token of the lexer.
NextToken(p) ==
    LET cur == p.peeking_token
        peek == LexerNextToken(p.lexer)
    IN  [p EXCEPT !.current_token = cur,
                  !.peeking_token = peek,
                  !.lexer = LexerAdvance(p.lexer),
                  !.calls = p.calls + 1,
                  !.sync = p.sync /\ cur = Stream(p.calls + 1)
                                  /\ peek = Stream(p.calls + 2)]

Ok(p, v) == [p |-> p, ok |-> TRUE, v |-> v]
Err(p) == [p |-> p, ok |-> FALSE, v |-> <<>>]

\* expect_peek!(self, kind): on a match advance and return Ok(()), else Err.
ExpectPeek(p, kind) ==
    IF p.peeking_token.k = kind THEN Ok(NextToken(p), <<>>) ELSE Err(p)

\* History: a loop iteration that began in state p0 and ended in state p1.
Iteration(p0, p1) == [p1 EXCEPT !.progress = p1.progress /\ p1.calls > p0.calls]

----------------------------------------------------------------------------
(* The syntax tree.  Expression and Statement values are tuples whose first *)
(* element names the variant.                                               *)

Identifier(name) == <<"Identifier", name>>
IntLit(value) == <<"Int", value>>
Bool(b) == <<"Bool", b>>
Prefix(operand, operator) == <<"Prefix", operator, operand>>
Infix(lhs, rhs, operator) == <<"Infix", operator, lhs, rhs>>
If(condition, consequence, alternative) == <<"If", condition, consequence, alternative>>
Function(parameters, body) == <<"Function", parameters, body>>
Call(function, arguments) == <<"Call", function, arguments>>
None == <<"None">>
Some(x) == <<"Some", x>>

LetStmt(name, value) == <<"Let", name, value>>
ReturnStmt(value) == <<"Return", value>>
ExpressionStmt(value) == <<"Expression", value>>

----------------------------------------------------------------------------
(* Integer literals: str::parse::<i64> on a run of decimal digits.  The     *)
(* value is kept as its decimal digits without leading zeros.               *)

I64MaxDigits == <<9, 2, 2, 3, 3, 7, 2, 0, 3, 6, 8, 5, 4, 7, 7, 5, 8, 0, 7>>

RECURSIVE StripZeros(_)
StripZeros(d) == IF Len(d) > 1 /\ d[1] = 0 THEN StripZeros(Tail(d)) ELSE d

\* a <= b for two digit sequences of the same length
RECURSIVE DigitsLeq(_, _)
DigitsLeq(a, b) ==
    IF a = <<>> THEN TRUE
    ELSE IF a[1] # b[1] THEN a[1] < b[1]
    ELSE DigitsLeq(Tail(a), Tail(b))

\* FitsI64 of a type without a largest value
FitsAnyWidth(d) == TRUE

FitsI64(d) ==
    \/ Len(d) < Len(I64MaxDigits)
    \/ Len(d) = Len(I64MaxDigits) /\ DigitsLeq(d, I64MaxDigits)

\* Parser::parse_integer
ParseInteger(p, literal) ==
    IF literal # <<>> /\ FitsI64(StripZeros(literal))
    THEN Ok(p, IntLit(StripZeros(literal)))
    ELSE Err(p)

\* Parser::parse_boolean
ParseBoolean(p) ==
    CASE p.current_token.k = "True" -> Ok(p, Bool(TRUE))
      [] p.current_token.k = "False" -> Ok(p, Bool(FALSE))
      [] OTHER -> Err(p)

----------------------------------------------------------------------------
(* The parse functions.                                                     *)

RECURSIVE ParseStatement(_)
RECURSIVE ParseExpressionStatement(_)
RECURSIVE ParseExpression(_, _)
RECURSIVE ExpressionLoop(_, _, _)
RECURSIVE ParsePrefix(_)
RECURSIVE ParseCallExpression(_, _)
RECURSIVE ParseCallArguments(_)
RECURSIVE CallArgumentsLoop(_, _)
RECURSIVE ParseFunctionLiteral(_)
RECURSIVE ParseIfExpression(_)
RECURSIVE ParseBlockStatement(_)
RECURSIVE BlockStatementLoop(_, _)
RECURSIVE ParseGroupedExpression(_)
RECURSIVE ParsePrefixExpression(_)
RECURSIVE ParseInfix(_, _)
RECURSIVE ParseLetStatement(_)
RECURSIVE ParseReturnStatement(_)

\* The `?` of Rust: Err(e) returns from the function at once, Ok(v) goes on.
Try(r, rest(_)) == IF r.ok THEN rest(r) ELSE r

\* Parser::parse_statement
ParseStatement(p) ==
    CASE p.current_token.k = "Let" -> ParseLetStatement(p)
      [] p.current_token.k = "Return" -> ParseReturnStatement(p)
      [] OTHER -> ParseExpressionStatement(p)

\* Parser::parse_expression_statement
ParseExpressionStatement(p) ==
    Try(ParseExpression(p, LOWEST), LAMBDA expression :
        IF expression.p.peeking_token.k = "Semicolon"
        THEN Ok(NextToken(expression.p), ExpressionStmt(expression.v))
        ELSE Ok(expression.p, ExpressionStmt(expression.v)))

\* ExpressionContinues with `<=` for `<`: the loop also takes an operator of the
\* level it was called with
ExpressionContinuesOnEqual(p, precedence) ==
    /\ p.peeking_token.k # "Semicolon"
    /\ precedence <= PrecedenceFrom(p.peeking_token)
    /\ p.peeking_token.k \in {"Eq", "NotEq", "LT", "GT", "Plus", "Minus", "Asterisk",
                              "Slash", "LParen"}

\* The condition of the while loop of parse_expression
ExpressionContinues(p, precedence) ==
    /\ p.peeking_token.k # "Semicolon"
    /\ precedence < PrecedenceFrom(p.peeking_token)

\* The while loop of parse_expression
ExpressionLoop(p, lhs, precedence) ==
    IF ExpressionContinues(p, precedence)
    THEN Try(ParseInfix(NextToken(p), lhs), LAMBDA r :
             ExpressionLoop(Iteration(p, r.p), r.v, precedence))
    ELSE Ok(p, lhs)

\* Parser::parse_expression
ParseExpression(p, precedence) ==
    Try(ParsePrefix(p), LAMBDA lhs : ExpressionLoop(lhs.p, lhs.v, precedence))

\* Parser::parse_prefix
ParsePrefix(p) ==
    CASE p.current_token.k = "Identifier" -> Ok(p, Identifier(p.current_token.v))
      [] p.current_token.k = "Integer" -> ParseInteger(p, p.current_token.v)
      [] p.current_token.k = "LParen" -> ParseGroupedExpression(p)
      [] p.current_token.k \in {"True", "False"} -> ParseBoolean(p)
      [] p.current_token.k \in {"Bang", "Minus"} -> ParsePrefixExpression(p)
      [] p.current_token.k = "If" -> ParseIfExpression(p)
      [] p.current_token.k = "Function" -> ParseFunctionLiteral(p)
      [] OTHER -> Err(p)

\* ParseCallExpression that calls nothing but a name
ParseCallExpressionOfNames(p, function) ==
    IF function[1] # "Identifier" THEN Err(p)
    ELSE Try(ParseCallArguments(p), LAMBDA arguments :
             Ok(arguments.p, Call(function, arguments.v)))

\* Parser::parse_call_expression
ParseCallExpression(p, function) ==
    Try(ParseCallArguments(p), LAMBDA arguments :
        Ok(arguments.p, Call(function, arguments.v)))

\* The while loop of parse_call_arguments
CallArgumentsLoop(p, arguments) ==
    IF p.peeking_token.k = "Comma"
    THEN Try(ParseExpression(NextToken(NextToken(p)), LOWEST), LAMBDA r :
             CallArgumentsLoop(Iteration(p, r.p), Append(arguments, r.v)))
    ELSE Ok(p, arguments)

\* ParseCallArguments without the expect_peek!(RParen) that closes the list
ParseCallArgumentsUnclosed(p) ==
    IF p.peeking_token.k = "RParen" THEN Ok(NextToken(p), <<>>)
    ELSE Try(ParseExpression(NextToken(p), LOWEST), LAMBDA first :
             CallArgumentsLoop(first.p, <<first.v>>))

\* Parser::parse_call_arguments
ParseCallArguments(p) ==
    IF p.peeking_token.k = "RParen" THEN Ok(NextToken(p), <<>>)
    ELSE Try(ParseExpression(NextToken(p), LOWEST), LAMBDA first :
         Try(CallArgumentsLoop(first.p, <<first.v>>), LAMBDA arguments :
         Try(ExpectPeek(arguments.p, "RParen"), LAMBDA e :
             Ok(e.p, arguments.v))))

\* One iteration of the while-let loop of parse_function_params, after the push
AfterParam(q) == IF q.current_token.k = "Comma" THEN NextToken(q) ELSE q

\* The while-let loop of parse_function_params
RECURSIVE FunctionParamsLoop(_, _)
FunctionParamsLoop(p, params) ==
    IF p.current_token.k = "Identifier"
    THEN FunctionParamsLoop(Iteration(p, AfterParam(NextToken(p))),
                            Append(params, Identifier(p.current_token.v)))
    ELSE Ok(p, params)

\* Parser::parse_function_params
ParseFunctionParams(p) ==
    IF p.peeking_token.k = "RParen" THEN Ok(NextToken(p), <<>>)
    ELSE FunctionParamsLoop(NextToken(p), <<>>)

\* Parser::parse_function_literal
ParseFunctionLiteral(p) ==
    Try(ExpectPeek(p, "LParen"), LAMBDA e1 :
    Try(ParseFunctionParams(e1.p), LAMBDA parameters :
    Try(ExpectPeek(parameters.p, "LBrace"), LAMBDA e2 :
    Try(ParseBlockStatement(e2.p), LAMBDA body :
        Ok(body.p, Function(parameters.v, body.v))))))

\* The else branch of parse_if_expression, entered with peeking_token = else
ParseAlternative(p) ==
    Try(ExpectPeek(NextToken(p), "LBrace"), LAMBDA e :
    Try(ParseBlockStatement(e.p), LAMBDA block :
        Ok(block.p, Some(block.v))))

\* ParseIfExpression that never looks for an else
ParseIfExpressionWithoutElse(p) ==
    Try(ExpectPeek(p, "LParen"), LAMBDA e1 :
    Try(ParseExpression(NextToken(e1.p), LOWEST), LAMBDA condition :
    Try(ExpectPeek(condition.p, "RParen"), LAMBDA e2 :
    Try(ExpectPeek(e2.p, "LBrace"), LAMBDA e3 :
    Try(ParseBlockStatement(e3.p), LAMBDA consequence :
        Ok(consequence.p, If(condition.v, consequence.v, None)))))))

\* Parser::parse_if_expression
ParseIfExpression(p) ==
    Try(ExpectPeek(p, "LParen"), LAMBDA e1 :
    Try(ParseExpression(NextToken(e1.p), LOWEST), LAMBDA condition :
    Try(ExpectPeek(condition.p, "RParen"), LAMBDA e2 :
    Try(ExpectPeek(e2.p, "LBrace"), LAMBDA e3 :
    Try(ParseBlockStatement(e3.p), LAMBDA consequence :
        IF consequence.p.peeking_token.k = "Else"
        THEN Try(ParseAlternative(consequence.p), LAMBDA alternative :
                 Ok(alternative.p, If(condition.v, consequence.v, alternative.v)))
        ELSE Ok(consequence.p, If(condition.v, consequence.v, None)))))))

\* The while loop of parse_block_statement
BlockStatementLoop(p, statements) ==
    IF p.current_token.k # "RBrace" /\ p.current_token.k # "EOF"
    THEN Try(ParseStatement(p), LAMBDA statement :
             BlockStatementLoop(Iteration(p, NextToken(statement.p)),
                                Append(statements, statement.v)))
    ELSE Ok(p, statements)

\* Parser::parse_block_statement
ParseBlockStatement(p) == BlockStatementLoop(NextToken(p), <<>>)

\* The last two lines of parse_grouped_expression: expect_peek is tried whether
\* or not the inner expression parsed, and its error comes first.
CloseGroup(expression) ==
    Try(ExpectPeek(expression.p, "RParen"), LAMBDA e :
        IF expression.ok THEN Ok(e.p, expression.v) ELSE Err(e.p))

\* ParseGroupedExpression with the inner expression parsed at PREFIX
ParseGroupedExpressionAtPrefix(p) == CloseGroup(ParseExpression(NextToken(p), PREFIX))

\* Parser::parse_grouped_expression
ParseGroupedExpression(p) == CloseGroup(ParseExpression(NextToken(p), LOWEST))

\* The operator match of parse_prefix_expression
PrefixOperator(token) ==
    CASE token.k = "Bang" -> "Not"
      [] token.k = "Minus" -> "Negative"
      [] OTHER -> "none"

\* ParsePrefixExpression with the operand parsed at LOWEST instead of PREFIX
ParsePrefixExpressionAtLowest(p) ==
    IF PrefixOperator(p.current_token) = "none" THEN Err(p)
    ELSE Try(ParseExpression(NextToken(p), LOWEST), LAMBDA expression :
             Ok(expression.p, Prefix(expression.v, PrefixOperator(p.current_token))))

\* Parser::parse_prefix_expression
ParsePrefixExpression(p) ==
    IF PrefixOperator(p.current_token) = "none" THEN Err(p)
    ELSE Try(ParseExpression(NextToken(p), PREFIX), LAMBDA expression :
             Ok(expression.p, Prefix(expression.v, PrefixOperator(p.current_token))))

\* The operator match of parse_infix
InfixOperator(token) ==
    CASE token.k = "Eq" -> "Equal"
      [] token.k = "NotEq" -> "NotEqual"
      [] token.k = "Plus" -> "Add"
      [] token.k = "Minus" -> "Sub"
      [] token.k = "Asterisk" -> "Mult"
      [] token.k = "Slash" -> "Div"
      [] token.k = "GT" -> "GreaterThan"
      [] token.k = "LT" -> "LessThan"
      [] OTHER -> "none"

\* Parser::parse_infix
ParseInfix(p, lhs) ==
    IF p.current_token.k = "LParen" THEN ParseCallExpression(p, lhs)
    ELSE IF InfixOperator(p.current_token) = "none" THEN Err(p)
    ELSE Try(ParseExpression(NextToken(p), PrecedenceFrom(p.current_token)),
             LAMBDA rhs : Ok(rhs.p, Infix(lhs, rhs.v, InfixOperator(p.current_token))))

\* LetAfterKeyword with the value parsed at PREFIX: it stops after one operand
LetAfterKeywordOperandOnly(q) ==
    IF q.current_token.k # "Identifier" THEN Err(q)
    ELSE Try(ExpectPeek(q, "Assign"), LAMBDA e :
         Try(ParseExpression(NextToken(e.p), PREFIX), LAMBDA expression :
             Ok(expression.p, LetStmt(q.current_token.v, expression.v))))

\* Parser::parse_let_statement, after the first next_token
LetAfterKeyword(q) ==
    IF q.current_token.k # "Identifier" THEN Err(q)
    ELSE Try(ExpectPeek(q, "Assign"), LAMBDA e :
         Try(ParseExpression(NextToken(e.p), LOWEST), LAMBDA expression :
             Ok(expression.p, LetStmt(q.current_token.v, expression.v))))

\* Parser::parse_let_statement
ParseLetStatement(p) == LetAfterKeyword(NextToken(p))

\* Parser::parse_return_statement
ParseReturnStatement(p) ==
    Try(ParseExpression(NextToken(p), LOWEST), LAMBDA expression :
        Ok(expression.p, ReturnStmt(expression.v)))

\* The while loop of advance_tokens
RECURSIVE AdvanceLoop(_)
AdvanceLoop(p) ==
    IF p.current_token.k # "Semicolon" /\ p.current_token.k # "EOF"
    THEN AdvanceLoop(Iteration(p, NextToken(p)))
    ELSE p

\* SkipSemicolon without the final if: the `;` is left as current_token
SkipNothing(q) == q

\* The if that ends advance_tokens
SkipSemicolon(q) == IF q.current_token.k = "Semicolon" THEN NextToken(q) ELSE q

\* Parser::advance_tokens
AdvanceTokens(p) == SkipSemicolon(AdvanceLoop(p))

----------------------------------------------------------------------------
(* Inputs.  Every input is a record: the family it belongs to, the tokens   *)
(* the lexer produces for it, and what it was written from.                 *)

\* Longest input of the exhaustive family
MaxLen == 4

Alphabet ==
    {Ident("a"), Integer(<<5>>), tSemi, tLP, tRP, tComma, tLB, tRB,
     tPlus, tLet, tAssign, tFn}

\* The sequences over S of length at most n
SeqsUpTo(S, n) == UNION {[1..k -> S] : k \in 0..n}

\* A token sequence taken as it is, with nothing known of what it parses to
AnyInput(tokens) == [family |-> "any", input |-> tokens]

\* Shorthands for the tokens and trees of the tests
ia == Ident("a")
ib == Ident("b")
ic == Ident("c")
id == Ident("d")
ie == Ident("e")
if == Ident("f")
ix == Ident("x")
iy == Ident("y")
n(d) == Integer(<<d>>)
ea == Identifier("a")
eb == Identifier("b")
ec == Identifier("c")
ed == Identifier("d")
ee == Identifier("e")
ef == Identifier("f")
ex == Identifier("x")
ey == Identifier("y")
num(d) == IntLit(<<d>>)
Test(tokens, statements) == [family |-> "test", input |-> tokens, program |-> statements]

\* The inputs of the tests of parser.rs with the programs they assert, and the
\* precedence examples with the trees their rendering denotes
TestInputs ==
    { \* test_call_expression_parsing: add(1, 2 * 3, 4 + 5, 6 / 2);
      Test(<<Ident("add"), tLP, n(1), tComma, n(2), tStar, n(3), tComma, n(4), tPlus,
             n(5), tComma, n(6), tSlash, n(2), tRP, tSemi>>,
           <<ExpressionStmt(Call(Identifier("add"),
               <<num(1), Infix(num(2), num(3), "Mult"), Infix(num(4), num(5), "Add"),
                 Infix(num(6), num(2), "Div")>>))>>),
      \* test_function_literal_parsing: fn(x, y) { x + y; }
      Test(<<tFn, tLP, ix, tComma, iy, tRP, tLB, ix, tPlus, iy, tSemi, tRB>>,
           <<ExpressionStmt(Function(<<ex, ey>>, <<ExpressionStmt(Infix(ex, ey, "Add"))>>))>>),
      \* test_parsing_infix_with_multiple_expressions
      Test(<<n(5), tPlus, n(7), tStar, n(1), tSemi, n(1), tMinus, n(2), tPlus, n(3), tSemi,
             n(5), tStar, n(7), tPlus, n(1), tSemi>>,
           <<ExpressionStmt(Infix(num(5), Infix(num(7), num(1), "Mult"), "Add")),
             ExpressionStmt(Infix(Infix(num(1), num(2), "Sub"), num(3), "Add")),
             ExpressionStmt(Infix(Infix(num(5), num(7), "Mult"), num(1), "Add"))>>),
      \* test_if_expression: if (x < y) { x }
      Test(<<tIf, tLP, ix, tLT, iy, tRP, tLB, ix, tRB>>,
           <<ExpressionStmt(If(Infix(ex, ey, "LessThan"), <<ExpressionStmt(ex)>>, None))>>),
      \* test_if_else_expression: if (x < y) { x } else { y }
      Test(<<tIf, tLP, ix, tLT, iy, tRP, tLB, ix, tRB, tElse, tLB, iy, tRB>>,
           <<ExpressionStmt(If(Infix(ex, ey, "LessThan"), <<ExpressionStmt(ex)>>,
                               Some(<<ExpressionStmt(ey)>>)))>>),
      \* test_parse_let_statement
      Test(<<tLet, ix, tAssign, n(5), tSemi, tLet, iy, tAssign, Integer(<<1, 0>>), tSemi>>,
           <<LetStmt("x", num(5)), LetStmt("y", IntLit(<<1, 0>>))>>),
      \* test_parse_return_statement
      Test(<<tReturn, ia, tSemi, tReturn, n(6), tPlus, n(4), tSemi>>,
           <<ReturnStmt(ea), ReturnStmt(Infix(num(6), num(4), "Add"))>>),
      \* test_prefix_operators
      Test(<<tBang, n(5), tSemi, tMinus, Integer(<<1, 5>>), tSemi>>,
           <<ExpressionStmt(Prefix(num(5), "Not")),
             ExpressionStmt(Prefix(IntLit(<<1, 5>>), "Negative"))>>),
      \* test_precedences: -a * b
      Test(<<tMinus, ia, tStar, ib>>,
           <<ExpressionStmt(Infix(Prefix(ea, "Negative"), eb, "Mult"))>>),
      \* !-a
      Test(<<tBang, tMinus, ia>>,
           <<ExpressionStmt(Prefix(Prefix(ea, "Negative"), "Not"))>>),
      \* a + b * c + d / e - f
      Test(<<ia, tPlus, ib, tStar, ic, tPlus, id, tSlash, ie, tMinus, if>>,
           <<ExpressionStmt(Infix(Infix(Infix(ea, Infix(eb, ec, "Mult"), "Add"),
                                        Infix(ed, ee, "Div"), "Add"), ef, "Sub"))>>),
      \* 3 + 4; -5 * 5
      Test(<<n(3), tPlus, n(4), tSemi, tMinus, n(5), tStar, n(5)>>,
           <<ExpressionStmt(Infix(num(3), num(4), "Add")),
             ExpressionStmt(Infix(Prefix(num(5), "Negative"), num(5), "Mult"))>>),
      \* 5 > 4 == 3 < 4
      Test(<<n(5), tGT, n(4), tEq, n(3), tLT, n(4)>>,
           <<ExpressionStmt(Infix(Infix(num(5), num(4), "GreaterThan"),
                                  Infix(num(3), num(4), "LessThan"), "Equal"))>>),
      \* 3 > 5 == false
      Test(<<n(3), tGT, n(5), tEq, tFalse>>,
           <<ExpressionStmt(Infix(Infix(num(3), num(5), "GreaterThan"), Bool(FALSE), "Equal"))>>),
      \* 1 + (2 + 3) + 4
      Test(<<n(1), tPlus, tLP, n(2), tPlus, n(3), tRP, tPlus, n(4)>>,
           <<ExpressionStmt(Infix(Infix(num(1), Infix(num(2), num(3), "Add"), "Add"),
                                  num(4), "Add"))>>),
      \* -(5 + 5)
      Test(<<tMinus, tLP, n(5), tPlus, n(5), tRP>>,
           <<ExpressionStmt(Prefix(Infix(num(5), num(5), "Add"), "Negative"))>>),
      \* !(true == true)
      Test(<<tBang, tLP, tTrue, tEq, tTrue, tRP>>,
           <<ExpressionStmt(Prefix(Infix(Bool(TRUE), Bool(TRUE), "Equal"), "Not"))>>) }

----------------------------------------------------------------------------
(* Writing a syntax tree as tokens, the way a program text spells it:       *)
(* operators between their operands without added parentheses, every       *)
(* statement closed by `;`, block bodies in braces.                         *)

PrefixToken(operator) == IF operator = "Not" THEN tBang ELSE tMinus

InfixToken(operator) ==
    CASE operator = "Equal" -> tEq
      [] operator = "NotEqual" -> tNotEq
      [] operator = "Add" -> tPlus
      [] operator = "Sub" -> tMinus
      [] operator = "Mult" -> tStar
      [] operator = "Div" -> tSlash
      [] operator = "GreaterThan" -> tGT
      [] operator = "LessThan" -> tLT

RECURSIVE WriteExpression(_)
RECURSIVE WriteStatement(_)
RECURSIVE WriteBlock(_)
RECURSIVE WriteList(_)

\* expressions separated by commas
WriteList(es) ==
    IF es = <<>> THEN <<>>
    ELSE IF Len(es) = 1 THEN WriteExpression(es[1])
    ELSE WriteExpression(es[1]) \o <<tComma>> \o WriteList(Tail(es))

WriteExpression(e) ==
    CASE e[1] = "Identifier" -> <<Ident(e[2])>>
      [] e[1] = "Int" -> <<Integer(e[2])>>
      [] e[1] = "Bool" -> <<IF e[2] THEN tTrue ELSE tFalse>>
      [] e[1] = "Prefix" -> <<PrefixToken(e[2])>> \o WriteExpression(e[3])
      [] e[1] = "Infix" ->
            WriteExpression(e[3]) \o <<InfixToken(e[2])>> \o WriteExpression(e[4])
      [] e[1] = "If" ->
            <<tIf, tLP>> \o WriteExpression(e[2]) \o <<tRP, tLB>> \o WriteBlock(e[3])
            \o <<tRB>>
            \o (IF e[4] = None THEN <<>> ELSE <<tElse, tLB>> \o WriteBlock(e[4][2]) \o <<tRB>>)
      [] e[1] = "Function" ->
            <<tFn, tLP>> \o WriteList(e[2]) \o <<tRP, tLB>> \o WriteBlock(e[3]) \o <<tRB>>
      [] e[1] = "Call" -> WriteExpression(e[2]) \o <<tLP>> \o WriteList(e[3]) \o <<tRP>>

WriteStatement(st) ==
    CASE st[1] = "Let" -> <<tLet, Ident(st[2]), tAssign>> \o WriteExpression(st[3]) \o <<tSemi>>
      [] st[1] = "Return" -> <<tReturn>> \o WriteExpression(st[2]) \o <<tSemi>>
      [] st[1] = "Expression" -> WriteExpression(st[2]) \o <<tSemi>>

WriteBlock(statements) ==
    IF statements = <<>> THEN <<>>
    ELSE WriteStatement(statements[1]) \o WriteBlock(Tail(statements))

\* s without its last element
Front(s) == SubSeq(s, 1, Len(s) - 1)

\* s without its element at index i
Without(s, i) == SubSeq(s, 1, i - 1) \o SubSeq(s, i + 1, Len(s))

----------------------------------------------------------------------------
(* Single well-formed statements.                                           *)

\* Most statements in a block body
MaxBlock == 2

\* The statements written inside blocks
NestedStatements ==
    {LetStmt("a", num(5)), ReturnStmt(ea), ExpressionStmt(ea),
     ExpressionStmt(Infix(ea, eb, "Add"))}

Blocks == SeqsUpTo(NestedStatements, MaxBlock)

SimpleExpressions ==
    {ea, num(5), Bool(TRUE), Prefix(ea, "Negative"), Infix(ea, eb, "Add"),
     Call(ea, <<eb, num(5)>>)}

BlockExpressions ==
    {If(ex, body, None) : body \in Blocks}
        \cup {If(ex, body, Some(<<st>>)) : body \in Blocks, st \in NestedStatements}
        \cup {If(ex, <<st>>, Some(body)) : body \in Blocks, st \in NestedStatements}
        \cup {Function(params, body) : params \in {<<>>, <<ex>>, <<ex, ey>>}, body \in Blocks}

StatementsOf(expressions) ==
    {LetStmt("x", e) : e \in expressions}
        \cup {ReturnStmt(e) : e \in expressions}
        \cup {ExpressionStmt(e) : e \in expressions}

\* One statement, with its closing `;` or with the `;` left out at the end of
\* the input
SingleInputs ==
    {[family |-> "single", input |-> WriteStatement(st), statement |-> st]
        : st \in StatementsOf(SimpleExpressions \cup BlockExpressions)}
    \cup
    {[family |-> "single", input |-> Front(WriteStatement(st)), statement |-> st]
        : st \in StatementsOf(SimpleExpressions \cup BlockExpressions)}

----------------------------------------------------------------------------
(* Operator chains: operand, operator, operand, ... with no parentheses     *)
(* between the operands.                                                    *)

\* Most infix operators in a chain
MaxOps == 3

InfixOperators ==
    {"Equal", "NotEqual", "LessThan", "GreaterThan", "Add", "Sub", "Mult", "Div"}

OperandNames == <<"a", "b", "c", "d", "e", "f">>

\* A bare identifier as an operand
Plain(name) == Identifier(name)

\* The operands written from one identifier: itself, under a unary operator,
\* called, and called under a unary operator
OperandForms(name) ==
    {Plain(name), Prefix(Plain(name), "Negative"), Prefix(Plain(name), "Not"),
     Call(Plain(name), <<ex>>), Prefix(Call(Plain(name), <<>>), "Negative")}

\* operands[1] operators[1] operands[2] ... as tokens
RECURSIVE WriteChain(_, _)
WriteChain(operands, operators) ==
    IF operators = <<>> THEN WriteExpression(operands[1])
    ELSE WriteExpression(operands[1]) \o <<InfixToken(operators[1])>>
            \o WriteChain(Tail(operands), Tail(operators))

Chain(operands, operators) ==
    [family |-> "chain", input |-> WriteChain(operands, operators),
     operands |-> operands, operators |-> operators]

\* Chains of up to MaxOps operators between bare identifiers, and chains of one
\* and of two operators between operands of every form
ChainInputs ==
    UNION {{Chain([i \in 1..(k + 1) |-> Plain(OperandNames[i])], operators)
                : operators \in [1..k -> InfixOperators]} : k \in 1..MaxOps}
    \cup
    {Chain(<<x, y>>, <<o>>)
        : x \in OperandForms("a"), y \in OperandForms("b"), o \in InfixOperators}
    \cup
    {Chain(<<x, y, z>>, <<o1, o2>>)
        : x \in OperandForms("a"), y \in OperandForms("b"), z \in OperandForms("c"),
          o1 \in InfixOperators, o2 \in InfixOperators}

----------------------------------------------------------------------------
(* Programs of several top-level statements, one of them malformed.         *)

\* Most top-level statements in a program of these families
MaxStmts == 3

StatementNames == <<"p", "q", "r", "s", "t">>

RECURSIVE Concat(_)
Concat(seqs) == IF seqs = <<>> THEN <<>> ELSE seqs[1] \o Concat(Tail(seqs))

\* The values of the let statements: without a block, and a function literal
\* whose body holds a statement closed by `;`
LetValues ==
    {num(5), ea, Infix(ea, eb, "Add"), Call(ea, <<eb>>),
     Function(<<ex>>, <<ExpressionStmt(ex)>>)}

\* let statements; the one at index bad is written without its `=`
Lets(values, bad) ==
    LET statements == [i \in 1..Len(values) |-> LetStmt(StatementNames[i], values[i])]
        written == [i \in 1..Len(values) |->
                        IF i = bad THEN Without(WriteStatement(statements[i]), 3)
                        ELSE WriteStatement(statements[i])]
    IN  [family |-> "lets", input |-> Concat(written),
         statements |-> statements, bad |-> bad]

LetsInputs ==
    UNION {{Lets(values, bad) : values \in [1..k -> LetValues], bad \in 1..k}
            : k \in 1..MaxStmts}

\* Well-formed statements, each closed by `;`
GoodStatements ==
    {LetStmt("y", num(5)), ExpressionStmt(eb), ReturnStmt(Infix(ea, eb, "Add")),
     ExpressionStmt(If(ex, <<ExpressionStmt(ea)>>, None))}

\* Malformed statements, each closed by `;`
BrokenStatements ==
    { <<tLet, ix, n(5), tSemi>>,                    \* let x 5;
      <<tLet, tAssign, n(5), tSemi>>,               \* let = 5;
      <<ia, tPlus, tSemi>>,                         \* a + ;
      <<tLP, ia, tSemi>>,                           \* ( a ;
      <<tReturn, tSemi>>,                           \* return ;
      <<ia, tRP, tSemi>>,                           \* a ) ;
      <<tIf, tLP, ia, tRP, tLB, tLet, ib, n(5), tSemi, ic, tSemi, tRB, tSemi>>,
                                                    \* if (a) { let b 5; c; };
      <<tFn, tLP, tRP, tLB, ia, tSemi, tPlus, tSemi, tRB, tSemi>> }
                                                    \* fn() { a; + ; };

\* The statements `others` in order, `broken` put in as statement number bad
Recover(others, broken, bad) ==
    LET written == [i \in 1..Len(others) |-> WriteStatement(others[i])]
    IN  [family |-> "recover",
         input |-> Concat(SubSeq(written, 1, bad - 1)) \o broken
                      \o Concat(SubSeq(written, bad, Len(written))),
         statements |-> others, broken |-> broken, bad |-> bad]

RecoverInputs ==
    UNION {{Recover(others, broken, bad)
                : others \in [1..(k - 1) -> GoodStatements],
                  broken \in BrokenStatements, bad \in 1..k}
            : k \in 1..MaxStmts}

----------------------------------------------------------------------------
(* If expressions with one required token left out.                         *)

IfConditions == {ex, Infix(ex, ey, "LessThan"), Call(ex, <<ey>>)}

IfBlocks == SeqsUpTo({ExpressionStmt(ea), ExpressionStmt(Infix(ea, eb, "Add"))}, MaxBlock)

\* Where the required tokens of a written if expression are
RequiredAt(e) ==
    LET c == Len(WriteExpression(e[2]))
        b == Len(WriteBlock(e[3]))
    IN  [LParen |-> 2, RParen |-> 3 + c, LBrace |-> 4 + c, RBrace |-> 5 + c + b]
        @@ (IF e[4] = None THEN <<>>
            ELSE [ElseLBrace |-> 7 + c + b,
                  ElseRBrace |-> 8 + c + b + Len(WriteBlock(e[4][2]))])

IfWithout(e, token) ==
    [family |-> "if", input |-> Without(WriteExpression(e), RequiredAt(e)[token]),
     expression |-> e, missing |-> token]

IfExpressions ==
    {If(c, body, None) : c \in IfConditions, body \in IfBlocks}
        \cup {If(c, body, Some(else)) : c \in IfConditions, body \in IfBlocks,
                                        else \in IfBlocks}

IfInputs ==
    UNION {{IfWithout(e, token) : token \in DOMAIN RequiredAt(e)} : e \in IfExpressions}

----------------------------------------------------------------------------
(* The state machine: Parser::new, then parse_program.                      *)

\* The Parser struct as the parse functions take it
Self ==
    [current_token |-> current_token, peeking_token |-> peeking_token,
     lexer |-> lexer, calls |-> calls, sync |-> sync, progress |-> progress]

\* The Parser struct after a call that left it as q
Becomes(q) ==
    /\ current_token' = q.current_token
    /\ peeking_token' = q.peeking_token
    /\ lexer' = q.lexer
    /\ calls' = q.calls
    /\ sync' = q.sync
    /\ progress' = q.progress

\* make_parser(input), then the first lines of parse_program
Start ==
    /\ input = given.input
    /\ current_token = NewParser.current_token
    /\ peeking_token = NewParser.peeking_token
    /\ lexer = NewParser.lexer
    /\ calls = NewParser.calls
    /\ sync = (NewParser.sync /\ NewParser.current_token = Stream(0)
                              /\ NewParser.peeking_token = Stream(1))
    /\ progress = NewParser.progress
    /\ errors = <<>>
    /\ program = <<>>
    /\ pc = "statement"
    /\ attempts = 0
    /\ starts = <<>>
    /\ last = [start |-> 0, ok |-> TRUE, current_token |-> EOF, peeking_token |-> EOF]

\* Collect dropping the error of a failed statement
CollectStatementsOnly(stmt) ==
    IF stmt.ok
    THEN /\ program' = Append(program, stmt.v)
         /\ starts' = Append(starts, calls)
         /\ errors' = errors
    ELSE UNCHANGED <<program, starts, errors>>

\* Collect putting a statement in front of the ones already there
CollectAtFront(stmt) ==
    IF stmt.ok
    THEN /\ program' = <<stmt.v>> \o program
         /\ starts' = <<calls>> \o starts
         /\ errors' = errors
    ELSE /\ errors' = Append(errors, "ParserError")
         /\ UNCHANGED <<program, starts>>

\* The match of parse_program on what parse_statement returned
Collect(stmt) ==
    IF stmt.ok
    THEN /\ program' = Append(program, stmt.v)
         /\ starts' = Append(starts, calls)
         /\ errors' = errors
    ELSE /\ errors' = Append(errors, "ParserError")
         /\ UNCHANGED <<program, starts>>

\* parse_program, loop body: parse_statement and the match on its result
ParseProgramStatement ==
    /\ pc = "statement"
    /\ current_token # EOF
    /\ LET stmt == ParseStatement(Self)
       IN  /\ Collect(stmt)
           /\ Becomes(stmt.p)
           /\ last' = [start |-> calls, ok |-> stmt.ok,
                       current_token |-> stmt.p.current_token,
                       peeking_token |-> stmt.p.peeking_token]
    /\ attempts' = attempts + 1
    /\ pc' = "advance"
    /\ UNCHANGED <<input, given>>

\* parse_program, loop body: advance_tokens, which ends the iteration
ParseProgramAdvance ==
    /\ pc = "advance"
    /\ LET q == AdvanceTokens(Self)
       IN  Becomes([q EXCEPT !.progress = q.progress /\ q.calls > last.start])
    /\ pc' = "statement"
    /\ UNCHANGED <<input, given, errors, program, attempts, starts, last>>

\* parse_program, loop exit: the program is returned
ParseProgramReturn ==
    /\ pc = "statement"
    /\ current_token = EOF
    /\ pc' = "done"
    /\ UNCHANGED <<input, given, lexer, current_token, peeking_token, errors,
                   program, calls, sync, progress, attempts, starts, last>>

Next ==
    \/ ParseProgramStatement
    \/ ParseProgramAdvance
    \/ ParseProgramReturn

\* The inputs of the families that know what they parse to
WrittenInputs ==
    TestInputs \cup SingleInputs \cup ChainInputs \cup LetsInputs
        \cup RecoverInputs \cup IfInputs

\* Every token sequence over Alphabet of length at most MaxLen, and every input
\* of every family
Init ==
    /\ \/ \E k \in 0..MaxLen : \E tokens \in [1..k -> Alphabet] : given = AnyInput(tokens)
       \/ given \in WrittenInputs
    /\ Start

Spec == Init /\ [][Next]_vars

\* A step of parse_program that is still running: each of the three actions
\* changes pc, and one of them is enabled in every state whose pc is not "done"
\* (the guards of ParseProgramStatement and ParseProgramReturn are complementary
\* on current_token, ParseProgramAdvance has none besides pc).
Running == pc # "done" /\ pc' \in {"statement", "advance", "done"} \ {pc}

\* parse_program runs on: it is a single thread that nothing suspends, so a step
\* that stays possible is taken. Stated on the change of pc, which is what a
\* step of Next is, so that TLC decides enabledness without parsing.
FairSpec == Spec /\ WF_pc(Running)

InitLets == given \in LetsInputs /\ Start

SpecLets == InitLets /\ [][Next]_vars

InitRecover == given \in RecoverInputs /\ Start

SpecRecover == InitRecover /\ [][Next]_vars

InitIf == given \in IfInputs /\ Start

SpecIf == InitIf /\ [][Next]_vars

InitSingle == given \in SingleInputs /\ Start

InitChain == given \in ChainInputs \cup TestInputs /\ Start

SpecChain == InitChain /\ [][Next]_vars

SpecSingle == InitSingle /\ [][Next]_vars

TypeOK ==
    /\ pc \in {"statement", "advance", "done"}
    /\ Len(program) + Len(errors) = attempts

\* The assertions of the tests of parser.rs
TestsPass ==
    (pc = "done" /\ given.family = "test") => (errors = <<>> /\ program = given.program)

----------------------------------------------------------------------------
(* Claims.                                                                  *)

\* The written statement has only expression statements inside its blocks
RECURSIVE OnlyExpressionStatements(_)
OnlyExpressionStatements(block) ==
    \A i \in 1..Len(block) : block[i][1] = "Expression"

BlocksOf(st) ==
    LET e == IF st[1] = "Let" THEN st[3] ELSE st[2]
    IN  CASE e[1] = "If" -> {e[3]} \cup (IF e[4] = None THEN {} ELSE {e[4][2]})
          [] e[1] = "Function" -> {e[3]}
          [] OTHER -> {}

\* C1: every well-formed input of a single top-level statement, blocks of nested
\* let, return and expression statements closed by `;` included, parses to a
\* program of exactly one statement with no error.
C1_SingleStatement ==
    (pc = "done" /\ given.family = "single") =>
        (Len(program) = 1 /\ errors = <<>>)

\* C1 holds of the statements whose blocks hold expression statements only, and
\* the one statement is the tree that was written.
C1_ExpressionBlocksOnly ==
    (pc = "done" /\ given.family = "single"
       /\ \A block \in BlocksOf(given.statement) : OnlyExpressionStatements(block)) =>
        (program = <<given.statement>> /\ errors = <<>>)

\* The pairs of infix operators of one precedence level
SameLevel(o1, o2) ==
    \E level \in {{"Add", "Sub"}, {"Mult", "Div"}, {"LessThan", "GreaterThan"},
                  {"Equal", "NotEqual"}} : o1 \in level /\ o2 \in level

\* C2: for operands a, b, c and infix operators op1, op2 of one precedence level,
\* `a op1 b op2 c` parses to Infix(op2, Infix(op1, a, b), c).
C2_LeftAssociative ==
    (pc = "done" /\ given.family = "chain" /\ Len(given.operators) = 2
       /\ SameLevel(given.operators[1], given.operators[2])) =>
        /\ errors = <<>>
        /\ program = <<ExpressionStmt(
               Infix(Infix(given.operands[1], given.operands[2], given.operators[1]),
                     given.operands[3], given.operators[2]))>>

\* C2 witness: `a - b + c` has been parsed, operands of every form likewise
C2_Witness ==
    /\ pc = "done" /\ given.family = "chain"
    /\ given.operators = <<"Sub", "Add">>
    /\ given.operands[2] = Prefix(Plain("b"), "Negative")
    /\ Len(program) = 1 /\ program[1][2][1] = "Infix" /\ program[1][2][3][1] = "Infix"

\* The binding level of an infix operator, low to high:
\* EQUALS < LESSGREATER < SUM < PRODUCT
BindingLevel(operator) ==
    CASE operator \in {"Equal", "NotEqual"} -> 1
      [] operator \in {"LessThan", "GreaterThan"} -> 2
      [] operator \in {"Add", "Sub"} -> 3
      [] operator \in {"Mult", "Div"} -> 4

\* The operator of a chain that binds last: of the lowest level, and the
\* rightmost of that level
RootIndex(operators) ==
    CHOOSE i \in 1..Len(operators) :
        \A j \in 1..Len(operators) :
            /\ j < i => BindingLevel(operators[j]) >= BindingLevel(operators[i])
            /\ j > i => BindingLevel(operators[j]) > BindingLevel(operators[i])

\* The tree of a chain in which every operator of a higher level is a subtree of
\* its neighbour of a lower level
RECURSIVE BindingTree(_, _)
BindingTree(operands, operators) ==
    IF operators = <<>> THEN operands[1]
    ELSE LET i == RootIndex(operators)
         IN  Infix(BindingTree(SubSeq(operands, 1, i), SubSeq(operators, 1, i - 1)),
                   BindingTree(SubSeq(operands, i + 1, Len(operands)),
                               SubSeq(operators, i + 1, Len(operators))),
                   operators[i])

\* C3: binding strength is EQUALS < LESSGREATER < SUM < PRODUCT < PREFIX < CALL:
\* a chain without parentheses parses to the tree in which the higher level is
\* the subtree, a unary operator takes only its own operand (which a call
\* extends), and the precedence examples of the tests parse as they render.
C3_BindingStrength ==
    /\ (pc = "done" /\ given.family = "chain") =>
          /\ errors = <<>>
          /\ program = <<ExpressionStmt(BindingTree(given.operands, given.operators))>>
    /\ (pc = "done" /\ given.family = "test") =>
          (errors = <<>> /\ program = given.program)

\* C3 witness: `-a() * b + !c` has been parsed to (((-a()) * b) + (!c))
C3_Witness ==
    /\ pc = "done" /\ given.family = "chain"
    /\ given.operators = <<"Mult", "Add">>
    /\ program = <<ExpressionStmt(
           Infix(Infix(Prefix(Call(Plain("a"), <<>>), "Negative"), Plain("b"), "Mult"),
                 Prefix(Plain("c"), "Not"), "Add"))>>

\* C4: in a program of let statements closed by `;` of which one lacks its `=`,
\* the malformed one adds no statement and exactly one error, and every other
\* statement is parsed and appended.
C4_LetWithoutAssign ==
    (pc = "done" /\ given.family = "lets") =>
        /\ errors = <<"ParserError">>
        /\ program = Without(given.statements, given.bad)

\* The value of a let statement holds no block
NoBlock(st) == st[3][1] # "Function"

\* C4 holds of the programs in which no let value holds a block.
C4_ValuesWithoutBlocks ==
    (pc = "done" /\ given.family = "lets"
       /\ \A i \in 1..Len(given.statements) : NoBlock(given.statements[i])) =>
        /\ errors = <<"ParserError">>
        /\ program = Without(given.statements, given.bad)

\* C5: in a program of statements closed by `;` of which exactly one is
\* malformed, wherever its error lies, exactly one error is recorded and the
\* program is the other statements, each as it parses on its own.
C5_OneMalformedStatement ==
    (pc = "done" /\ given.family = "recover") =>
        /\ errors = <<"ParserError">>
        /\ program = given.statements

\* C6: the empty input, and the input of only `;`, give a program of no
\* statements and no error.
C6_EmptyAndSemicolon ==
    (pc = "done" /\ input \in {<<>>, <<tSemi>>}) =>
        (program = <<>> /\ errors = <<>>)

\* C6 holds of the empty input.
C6_Empty ==
    (pc = "done" /\ input = <<>>) => (program = <<>> /\ errors = <<>>)

\* C7: every top-level statement attempt adds exactly one entry to exactly one
\* of the program and the error list, no other step changes either, and so the
\* statements and the errors together count the attempts.
C7_OneEntryPerAttempt ==
    /\ [](Len(program) + Len(errors) = attempts)
    /\ [][/\ attempts' = attempts + 1 =>
                \/ Len(program') = Len(program) + 1 /\ errors' = errors
                \/ Len(errors') = Len(errors) + 1 /\ program' = program
          /\ attempts' = attempts => (program' = program /\ errors' = errors)]_vars

\* C7 witness: a program was returned that holds statements, after a failure
\* inside a block of one statement was recorded
C7_Witness ==
    /\ pc = "done" /\ given.family = "recover"
    /\ given.broken[1] = tIf
    /\ Len(program) >= 1 /\ Len(errors) >= 1

\* C8: parse_program returns on every input, and every completed iteration of
\* every loop of the parser has moved the cursor by at least one token.
C8_Terminates == <>(pc = "done") /\ []progress

\* C8 witness: the parse of an input that runs the block loop, the parameter
\* loop and the top-level loop has returned
C8_Witness ==
    /\ pc = "done" /\ progress
    /\ given.family = "single" /\ given.statement[1] = "Expression"
    /\ given.statement[2][1] = "Function"
    /\ Len(given.statement[2][2]) = 2 /\ Len(given.statement[2][3]) = 2
    /\ calls >= Len(input)

\* C9: current_token and peeking_token are the tokens at positions i and i + 1 of
\* the stream, i the number of next_token calls so far (0 after Parser::new), at
\* every next_token inside a parse function too; once current_token is the
\* end-marker, so is peeking_token.
C9_TwoTokenWindow ==
    /\ current_token = Stream(calls)
    /\ peeking_token = Stream(calls + 1)
    /\ sync
    /\ current_token = EOF => peeking_token = EOF

\* C9 witness: the cursor has run to the end of an input of several tokens
C9_Witness ==
    /\ pc = "done" /\ Len(input) >= 3 /\ calls >= Len(input)
    /\ current_token = EOF /\ peeking_token = EOF

\* C10: an if expression written without one of its required tokens is a parse
\* error.
C10_IfRequiredTokens ==
    (pc = "advance" /\ attempts = 1 /\ given.family = "if") => ~last.ok

\* C10 holds when the token left out is not the `}` that ends the input.
C10_NotTheLastBrace ==
    (pc = "advance" /\ attempts = 1 /\ given.family = "if"
       /\ RequiredAt(given.expression)[given.missing] <= Len(given.input)) => ~last.ok

----------------------------------------------------------------------------
(* Lists between parentheses: the parameters of a function literal and the  *)
(* arguments of a call, drawn from every token sequence of a few kinds.     *)

\* Most tokens of a parameter list or of an argument list, parentheses included
MaxList == 5

\* Identifiers at the odd places, single commas at the even places
Separated(items) ==
    /\ items = <<>> \/ Len(items) % 2 = 1
    /\ \A i \in 1..Len(items) :
          IF i % 2 = 1 THEN items[i].k = "Identifier" ELSE items[i] = tComma

\* `(`, identifiers separated by single commas, `)`
WellFormedList(list) ==
    /\ Len(list) >= 2
    /\ list[1] = tLP
    /\ list[Len(list)] = tRP
    /\ Separated(SubSeq(list, 2, Len(list) - 1))

\* The identifiers of a list in source order
IdentifiersOf(list) ==
    LET RECURSIVE From(_)
        From(i) == IF i > Len(list) THEN <<>>
                   ELSE IF list[i].k = "Identifier"
                        THEN <<Identifier(list[i].v)>> \o From(i + 1)
                        ELSE From(i + 1)
    IN  From(1)

ParamTokens == {tLP, tRP, tComma, ix, iy, n(5)}

\* fn, then the tokens of list, then the body { x; }
FnWith(list) ==
    [family |-> "fn", input |-> <<tFn>> \o list \o <<tLB, ix, tSemi, tRB>>,
     list |-> list]

InitFn ==
    /\ \E k \in 0..MaxList : \E list \in [1..k -> ParamTokens] : given = FnWith(list)
    /\ Start

SpecFn == InitFn /\ [][Next]_vars

\* C11: a function literal parses exactly when `fn` is followed by `(`,
\* identifiers separated by single commas, `)` and the body, and then its
\* parameters are those identifiers in source order; every other shape of the
\* parameter list is a parse error.
C11_FunctionParameters ==
    (pc = "advance" /\ attempts = 1 /\ given.family = "fn") =>
        /\ last.ok <=> WellFormedList(given.list)
        /\ last.ok => program = <<ExpressionStmt(
                          Function(IdentifiersOf(given.list), <<ExpressionStmt(ex)>>))>>

\* C11 holds in one direction: a well-formed parameter list is accepted, with
\* its identifiers in source order as the parameters.
C11_WellFormedAccepted ==
    (pc = "advance" /\ attempts = 1 /\ given.family = "fn"
       /\ WellFormedList(given.list)) =>
        /\ last.ok
        /\ program = <<ExpressionStmt(
               Function(IdentifiersOf(given.list), <<ExpressionStmt(ex)>>))>>

\* Most arguments of a written call
MaxArgs == 3

\* Arguments: operands, and expressions with operators of several levels
ArgExpressions ==
    {ex, num(5), Prefix(ex, "Negative"), Infix(ex, ey, "Add"),
     Infix(ex, Infix(ey, ea, "Mult"), "Add"), Call(ey, <<ex>>)}

\* What is callable in the written calls: a name, and a call
Callees == {ea, Call(ea, <<ex>>)}

\* Tokens that are neither `,` nor `)` and do not continue an expression
NotClosing == {tSemi, ix, n(5), tLB, tRB, tAssign, tLet, tTrue}

\* What follows the last argument: the `)`, or a token that is not one with or
\* without a `)` behind it, or the end of the input
Closings ==
    {<<tRP>>, <<>>} \cup {<<t>> : t \in NotClosing} \cup {<<t, tRP>> : t \in NotClosing}

\* callee ( arguments, then closing
CallWith(callee, arguments, closing) ==
    [family |-> "call",
     input |-> WriteExpression(callee) \o <<tLP>> \o WriteList(arguments) \o closing,
     callee |-> callee, arguments |-> arguments, closing |-> closing]

InitCall ==
    /\ \E k \in 0..MaxArgs : \E arguments \in [1..k -> ArgExpressions] :
          \E callee \in Callees :
             \E closing \in (IF k = 0 THEN {<<tRP>>} ELSE Closings) :
                given = CallWith(callee, arguments, closing)
    /\ Start

SpecCall == InitCall /\ [][Next]_vars

\* C12: `(` after an expression builds a Call whose arguments are the
\* comma-separated expressions up to the `)`, each a full expression parsed at
\* LOWEST, in source order, none for `()`; when the token after the last argument
\* is neither `,` nor `)` the call is a parse error.
C12_CallArguments ==
    (pc = "advance" /\ attempts = 1 /\ given.family = "call") =>
        IF given.closing = <<tRP>>
        THEN /\ last.ok
             /\ program = <<ExpressionStmt(Call(given.callee, given.arguments))>>
        ELSE ~last.ok /\ program = <<>>

\* C12 witness: a call of three arguments, one of them with operators of two
\* levels, has been parsed into a Call of three arguments
C12_Witness ==
    /\ pc = "advance" /\ attempts = 1 /\ given.family = "call"
    /\ given.closing = <<tRP>> /\ Len(given.arguments) = 3
    /\ given.arguments[2] = Infix(ex, Infix(ey, ea, "Mult"), "Add")
    /\ Len(program) = 1 /\ Len(program[1][2][3]) = 3

----------------------------------------------------------------------------
(* Rendering a parsed expression and parsing the rendered text again.       *)

\* The fully parenthesized form of a tree, as tokens: (left op right) for an
\* infix, (op operand) for a prefix, a literal or a name as it is
RECURSIVE Render(_)
Render(e) ==
    CASE e[1] = "Identifier" -> <<Ident(e[2])>>
      [] e[1] = "Int" -> <<Integer(e[2])>>
      [] e[1] = "Bool" -> <<IF e[2] THEN tTrue ELSE tFalse>>
      [] e[1] = "Prefix" -> <<tLP, PrefixToken(e[2])>> \o Render(e[3]) \o <<tRP>>
      [] e[1] = "Infix" ->
            <<tLP>> \o Render(e[3]) \o <<InfixToken(e[2])>> \o Render(e[4]) \o <<tRP>>

\* The trees that have a rendering here: names, literals, prefix and infix.
\* (A `(` after an operand makes a Call, which is not one of them.)
RECURSIVE Renderable(_)
Renderable(e) ==
    CASE e[1] \in {"Identifier", "Int", "Bool"} -> TRUE
      [] e[1] = "Prefix" -> Renderable(e[3])
      [] e[1] = "Infix" -> Renderable(e[3]) /\ Renderable(e[4])
      [] OTHER -> FALSE

\* A source expression in parentheses
Group(e) == <<"Group", e>>

\* A source expression as it is written: operators between their operands,
\* parentheses only where the source has a Group
RECURSIVE WriteSource(_)
WriteSource(e) ==
    CASE e[1] = "Group" -> <<tLP>> \o WriteSource(e[2]) \o <<tRP>>
      [] e[1] = "Prefix" -> <<PrefixToken(e[2])>> \o WriteSource(e[3])
      [] e[1] = "Infix" -> WriteSource(e[3]) \o <<InfixToken(e[2])>> \o WriteSource(e[4])
      [] OTHER -> WriteExpression(e)

SourceAtoms == {ea, num(5)}

SourceInfix == {"Add", "Mult", "Equal"}

\* The expressions of es, bare, in parentheses and under a prefix operator
Operands(es) ==
    es \cup {Group(e) : e \in es}
       \cup {Prefix(e, o) : e \in es, o \in {"Not", "Negative"}}

\* The expressions of ls and rs, and an infix operator between one of each
Combined(ls, rs) == ls \cup rs \cup {Infix(l, r, o) : l \in ls, r \in rs, o \in SourceInfix}

\* Source expressions over atoms: with small the operands of the atoms and
\* large the operands of the infix expressions of small ones, an operand, or an
\* infix of a large and a small operand in either order
SourceExpressions(atoms) ==
    LET small == Operands(atoms)
        large == Operands(Combined(small, small))
    IN  Combined(large, small) \cup Combined(small, large)

\* The tokens of expressions: names, literals, operators and parentheses
ExpressionTokens == {ia, n(5), tTrue, tBang, tMinus, tPlus, tStar, tEq, tLP, tRP}

\* A text to parse, render and parse again; pass counts the parses begun and
\* first is the tree of the first parse once the second has begun
RoundTrip(tokens) == [family |-> "round", input |-> tokens, pass |-> 1, first |-> <<>>]

InitRound ==
    /\ \/ \E e \in SourceExpressions(SourceAtoms) : given = RoundTrip(WriteSource(e))
       \/ \E k \in 1..MaxLen : \E tokens \in [1..k -> ExpressionTokens] :
             given = RoundTrip(tokens)
    /\ Start

\* The first parse returned one expression without error: its tree is rendered
\* and a parser is made on the rendered text
RenderAndReparse ==
    /\ pc = "done"
    /\ given.family = "round" /\ given.pass = 1
    /\ errors = <<>> /\ Len(program) = 1
    /\ Renderable(program[1][2])
    /\ input' = Render(program[1][2])
    /\ given' = [given EXCEPT !.pass = 2, !.first = program[1][2]]
    /\ current_token' = NewParser'.current_token
    /\ peeking_token' = NewParser'.peeking_token
    /\ lexer' = NewParser'.lexer
    /\ calls' = 0
    /\ sync' = TRUE
    /\ progress' = TRUE
    /\ errors' = <<>>
    /\ program' = <<>>
    /\ pc' = "statement"
    /\ attempts' = 0
    /\ starts' = <<>>
    /\ last' = [start |-> 0, ok |-> TRUE, current_token |-> EOF, peeking_token |-> EOF]

SpecRound == InitRound /\ [][Next \/ RenderAndReparse]_vars

\* C13: when an expression of names, literals, prefix and infix operators and
\* parentheses parses without error, the parse of its fully parenthesized
\* rendering returns the same tree, without error.
C13_RoundTrip ==
    (pc = "done" /\ given.family = "round" /\ given.pass = 2) =>
        (errors = <<>> /\ program = <<ExpressionStmt(given.first)>>)

\* C13 witness: a source with parentheses that change the tree has been parsed,
\* rendered and parsed again
C13_Witness ==
    /\ pc = "done" /\ given.family = "round" /\ given.pass = 2
    /\ given.input = <<ia, tStar, tLP, ia, tPlus, n(5), tRP>>
    /\ given.first = Infix(ea, Infix(ea, num(5), "Add"), "Mult")
    /\ input = <<tLP, ia, tStar, tLP, ia, tPlus, n(5), tRP, tRP>>

----------------------------------------------------------------------------
(* Order of the statements.                                                 *)

\* C14: statements are only appended at the end of the program, never removed,
\* replaced or reordered, and of two statements of the program the one with the
\* smaller index starts at the earlier token position (starts[i] is the position
\* at which the parse of statement i began).
C14_SourceOrder ==
    /\ [](/\ Len(starts) = Len(program)
          /\ \A i, j \in 1..Len(program) : i < j => starts[i] < starts[j])
    /\ [][\/ program' = program
          \/ /\ Len(program') = Len(program) + 1
             /\ SubSeq(program', 1, Len(program)) = program
             /\ starts'[Len(program')] = calls]_vars

\* C14 witness: a program of three statements was returned, with a failed
\* statement among the attempts
C14_Witness ==
    /\ pc = "done" /\ Len(program) = 3 /\ Len(errors) >= 1
    /\ program[1] # program[2] /\ program[2] # program[3]

----------------------------------------------------------------------------
(* Block bodies.                                                            *)

\* Well-formed statements of every kind, each written with its `;`
BlockStatements ==
    {LetStmt("a", num(5)), LetStmt("b", Infix(ea, eb, "Add")), ReturnStmt(ea),
     ReturnStmt(num(5)), ExpressionStmt(ea), ExpressionStmt(Infix(ea, eb, "Add")),
     ExpressionStmt(Call(ea, <<eb>>))}

\* The expressions that hold the block: a function literal, and an if
\* expression with the block as consequence and as alternative
Around(body) ==
    {Function(<<ex>>, body), If(ex, body, None), If(ex, <<ExpressionStmt(ey)>>, Some(body))}

\* The expression alone: after it the input ends
BlockIn(e, body) ==
    [family |-> "block", input |-> WriteExpression(e), expression |-> e, body |-> body]

InitBlock ==
    /\ \E k \in 0..MaxBlock : \E body \in [1..k -> BlockStatements] :
          \E e \in Around(body) : given = BlockIn(e, body)
    /\ Start

SpecBlock == InitBlock /\ [][Next]_vars

\* C15: a block { s1 ... sk } of k >= 0 well-formed statements of any kind, each
\* closed by `;`, parses without error to exactly those statements in source
\* order, and leaves current_token on the `}` that closes the block.
C15_BlockBody ==
    (pc = "advance" /\ attempts = 1 /\ given.family = "block") =>
        /\ last.ok
        /\ program = <<ExpressionStmt(given.expression)>>
        /\ last.current_token = tRB /\ last.peeking_token = EOF

\* C15 holds of the blocks of expression statements.
C15_ExpressionStatements ==
    (pc = "advance" /\ attempts = 1 /\ given.family = "block"
       /\ OnlyExpressionStatements(given.body)) =>
        /\ last.ok
        /\ program = <<ExpressionStmt(given.expression)>>
        /\ last.current_token = tRB /\ last.peeking_token = EOF

----------------------------------------------------------------------------
(* If expressions with and without else, and what follows them.             *)

\* Block bodies of at most MaxBlock statements of every kind
ElseBlocks ==
    SeqsUpTo({ExpressionStmt(ea), ExpressionStmt(Infix(ea, eb, "Add")),
              LetStmt("a", num(5))}, MaxBlock)

\* What follows the consequence's `}` when it is not `else`: the end of the
\* input, a `;`, another statement, a block, and an else that comes too late
NotElse ==
    {<<>>, <<tSemi>>, <<ib, tSemi>>, <<tRP>>, <<tLB, ib, tSemi, tRB>>,
     <<tSemi, tElse, tLB, ib, tSemi, tRB>>, <<ib, tElse, tLB, ib, tSemi, tRB>>}

\* The if expression e as written, then the tokens of after
IfThen(e, after) ==
    [family |-> "else", input |-> WriteExpression(e) \o after,
     expression |-> e, after |-> after]

InitElse ==
    /\ \E body \in ElseBlocks :
          \/ \E after \in NotElse : given = IfThen(If(ex, body, None), after)
          \/ \E else \in ElseBlocks : \E after \in NotElse :
                given = IfThen(If(ex, body, Some(else)), after)
    /\ Start

SpecElse == InitElse /\ [][Next]_vars

\* Every block of the written if expression holds expression statements only
ParsesAsWritten(e) ==
    /\ OnlyExpressionStatements(e[3])
    /\ e[4] # None => OnlyExpressionStatements(e[4][2])

\* C16: the alternative of an if expression is present exactly when `else` is the
\* token right after the `}` of the consequence, and is then the statements of
\* the block that follows; otherwise it is None and no token beyond that `}` is
\* consumed by parse_if_expression (calls is the position of current_token when
\* the statement returns; a `;` right after is taken by
\* parse_expression_statement).
C16_Alternative ==
    (pc = "advance" /\ attempts = 1 /\ given.family = "else") =>
        /\ ParsesAsWritten(given.expression) => last.ok
        /\ last.ok =>
              /\ program = <<ExpressionStmt(given.expression)>>
              /\ calls = Len(WriteExpression(given.expression)) - 1
                            + (IF given.after # <<>> /\ given.after[1] = tSemi
                               THEN 1 ELSE 0)
              /\ (given.after = <<>> \/ given.after[1] # tSemi) => current_token = tRB

\* C16 witness: an if with an else block of two statements, followed by another
\* statement, was parsed with its alternative; the cursor is on its last `}`
C16_Witness ==
    /\ pc = "advance" /\ attempts = 1 /\ given.family = "else"
    /\ given.expression[4] # None /\ Len(given.expression[4][2]) = 2
    /\ given.after = <<ib, tSemi>>
    /\ last.ok /\ program[1][2][4] = given.expression[4]
    /\ current_token = tRB /\ peeking_token = ib

----------------------------------------------------------------------------
(* Let statements, well-formed and with each of their three errors.         *)

\* Values as they parse when written without parentheses
LetExpressions ==
    {ea, num(5), Bool(FALSE), Prefix(ea, "Not"),
     Infix(ea, eb, "Add"),
     Infix(ea, Infix(eb, ec, "Mult"), "Add"),
     Infix(Infix(ea, eb, "Sub"), ec, "Sub"),
     Infix(Infix(Prefix(ea, "Negative"), eb, "Mult"), Infix(ec, ed, "Div"), "LessThan"),
     Infix(Infix(ea, eb, "LessThan"), Infix(ec, ed, "GreaterThan"), "Equal"),
     Call(ea, <<eb, Infix(ec, ed, "Add")>>),
     Infix(Call(ea, <<>>), eb, "Add"),
     Function(<<ex, ey>>, <<ExpressionStmt(Infix(ex, ey, "Add"))>>),
     If(ex, <<ExpressionStmt(ea)>>, Some(<<ExpressionStmt(eb)>>))}

\* Tokens that are not an identifier, for the place of the name
NotAName == {n(5), tAssign, tLP, tLet, tSemi, tTrue, tFn}

\* Tokens that are not `=`, for the place after the name
NotAssign == {n(5), tEq, tLP, tSemi, tPlus, ib, tComma}

\* Token sequences that are no expression, for the place of the value
NotAValue ==
    {<<>>, <<tPlus>>, <<tLP, ia>>, <<ia, tPlus>>, <<tRP>>, <<tAssign, ia>>,
     <<tBang>>, <<ia, tLP, ib>>, <<tIf, ia>>, <<tFn, tLP>>}

\* A let statement: the tokens, whether it is well-formed, and its parts
LetWith(tokens, good, name, value) ==
    [family |-> "let", input |-> tokens, good |-> good, name |-> name, value |-> value]

LetNames == {"x", "foobar"}

InitLet ==
    /\ \/ \E name \in LetNames : \E value \in LetExpressions :
          \/ given = LetWith(WriteStatement(LetStmt(name, value)), TRUE, name, value)
          \/ given = LetWith(Front(WriteStatement(LetStmt(name, value))), TRUE, name, value)
          \/ \E t \in NotAName :
                given = LetWith(<<tLet, t, tAssign>> \o WriteExpression(value) \o <<tSemi>>,
                                FALSE, name, value)
          \/ given = LetWith(<<tLet, tAssign>> \o WriteExpression(value) \o <<tSemi>>,
                             FALSE, name, value)
          \/ \E t \in NotAssign :
                given = LetWith(<<tLet, Ident(name), t>> \o WriteExpression(value) \o <<tSemi>>,
                                FALSE, name, value)
          \/ given = LetWith(<<tLet, Ident(name)>> \o WriteExpression(value) \o <<tSemi>>,
                             FALSE, name, value)
       \/ \E name \in LetNames : \E tokens \in NotAValue :
             given = LetWith(<<tLet, Ident(name), tAssign>> \o tokens \o <<tSemi>>,
                             FALSE, name, <<>>)
    /\ Start

SpecLet == InitLet /\ [][Next]_vars

\* C17: `let <identifier> = <expression>` parses to Let with the identifier's
\* text as name and the whole expression, parsed at LOWEST, as value; it is a
\* parse error when the token after `let` is not an identifier, when the token
\* after the identifier is not `=`, and when the expression does not parse.
C17_LetStatement ==
    (pc = "advance" /\ attempts = 1 /\ given.family = "let") =>
        IF given.good
        THEN last.ok /\ program = <<LetStmt(given.name, given.value)>>
        ELSE ~last.ok /\ program = <<>> /\ errors = <<"ParserError">>

\* C17 witness: a let statement whose value has operators of three levels has
\* been parsed into a Let holding the whole value
C17_Witness ==
    /\ pc = "advance" /\ attempts = 1 /\ given.family = "let" /\ given.good
    /\ given.name = "foobar"
    /\ given.value[1] = "Infix" /\ given.value[2] = "LessThan"
    /\ program = <<LetStmt("foobar", given.value)>>

----------------------------------------------------------------------------
(* Integer literals and the values their digits denote.  A value is a       *)
(* natural number of any size, kept as its base-10000 digits, lowest first, *)
(* without a highest digit 0; the number 0 is the empty sequence.           *)

\* value * m + carry
RECURSIVE TimesPlus(_, _, _)
TimesPlus(value, m, carry) ==
    IF value = <<>> THEN (IF carry = 0 THEN <<>> ELSE <<carry>>)
    ELSE <<(value[1] * m + carry) % 10000>>
            \o TimesPlus(Tail(value), m, (value[1] * m + carry) \div 10000)

\* The number that a run of decimal digits denotes
RECURSIVE ValueFrom(_, _)
ValueFrom(digits, value) ==
    IF digits = <<>> THEN value
    ELSE ValueFrom(Tail(digits), TimesPlus(value, 10, digits[1]))

ValueOf(digits) == ValueFrom(digits, <<>>)

\* base to the power k, for a base below 10000
RECURSIVE Power(_, _)
Power(base, k) == IF k = 0 THEN <<1>> ELSE TimesPlus(Power(base, k - 1), base, 0)

\* 2^63, as (2^9)^7
TwoTo63 == Power(512, 7)

\* a < b for two values of the same number of base-10000 digits
RECURSIVE LessFromTop(_, _)
LessFromTop(a, b) ==
    IF a = <<>> THEN FALSE
    ELSE IF a[Len(a)] # b[Len(b)] THEN a[Len(a)] < b[Len(b)]
    ELSE LessFromTop(Front(a), Front(b))

Less(a, b) == Len(a) < Len(b) \/ (Len(a) = Len(b) /\ LessFromTop(a, b))

\* One integer literal as a statement
IntegerText(digits) ==
    [family |-> "integer", input |-> <<Integer(digits), tSemi>>, digits |-> digits]

\* Digit texts: 2^63 - 1 with any one digit changed, the same behind zeros, the
\* short ones, and some of twenty digits and more
InitInteger ==
    /\ \/ \E i \in 1..Len(I64MaxDigits) : \E d \in 0..9 :
             \/ given = IntegerText([I64MaxDigits EXCEPT ![i] = d])
             \/ given = IntegerText(<<0, 0>> \o [I64MaxDigits EXCEPT ![i] = d])
       \/ \E k \in 1..2 : \E digits \in [1..k -> 0..9] : given = IntegerText(digits)
       \/ \E d \in 0..9 : \/ given = IntegerText(I64MaxDigits \o <<d>>)
                          \/ given = IntegerText(<<d>> \o I64MaxDigits)
                          \/ given = IntegerText(<<1>> \o [i \in 1..19 |-> d])
    /\ Start

SpecInteger == InitInteger /\ [][Next]_vars

\* C18: an integer token whose digits denote a value of 0 .. 2^63 - 1 parses to
\* an integer literal of exactly that value, and one whose digits denote a
\* larger value is a parse error.
C18_IntegerRange ==
    (pc = "advance" /\ attempts = 1 /\ given.family = "integer") =>
        IF Less(ValueOf(given.digits), TwoTo63)
        THEN /\ last.ok /\ Len(program) = 1
             /\ program[1][1] = "Expression" /\ program[1][2][1] = "Int"
             /\ ValueOf(program[1][2][2]) = ValueOf(given.digits)
        ELSE ~last.ok /\ program = <<>> /\ errors = <<"ParserError">>

\* C18 witness: 2^63 - 1 itself has been parsed to a literal, and it is the
\* largest value: one more is 2^63
C18_Witness ==
    /\ pc = "advance" /\ attempts = 1 /\ given.family = "integer"
    /\ given.digits = I64MaxDigits
    /\ program = <<ExpressionStmt(IntLit(I64MaxDigits))>>
    /\ TimesPlus(ValueOf(given.digits), 1, 1) = TwoTo63

----------------------------------------------------------------------------
(* Calls of every prefix form.                                              *)

\* Complete prefix forms as they are written, each with the tree it parses to:
\* names, literals, expressions in parentheses, function literals and if
\* expressions
PrefixForms ==
    {[source |-> e, tree |-> e] :
        e \in {ea, Identifier("add"), num(5), Bool(TRUE), Bool(FALSE),
               Function(<<>>, <<ExpressionStmt(ea)>>),
               Function(<<ex, ey>>, <<ExpressionStmt(Infix(ex, ey, "Add"))>>),
               If(ex, <<ExpressionStmt(ea)>>, None),
               If(ex, <<ExpressionStmt(ea)>>, Some(<<ExpressionStmt(eb)>>))}}
    \cup
    {[source |-> Group(e), tree |-> e] :
        e \in {ea, num(5), Infix(ea, eb, "Add"), Prefix(ea, "Negative"),
               Call(ea, <<eb>>), Function(<<ex>>, <<ExpressionStmt(ex)>>)}}

CalleeArguments == {<<>>, <<ex>>, <<num(5), Infix(ex, ey, "Mult")>>}

\* The prefix form, then ( arguments ), then the tokens of end
CallOf(form, arguments, end) ==
    [family |-> "callee",
     input |-> WriteSource(form.source) \o <<tLP>> \o WriteList(arguments) \o <<tRP>> \o end,
     function |-> form.tree, arguments |-> arguments]

InitCallee ==
    /\ \E form \in PrefixForms : \E arguments \in CalleeArguments :
          \E end \in {<<>>, <<tSemi>>, <<tSemi, ib, tSemi>>} :
             given = CallOf(form, arguments, end)
    /\ Start

SpecCallee == InitCallee /\ [][Next]_vars

\* C19: the text of any complete prefix form, a name or not, followed at once by
\* `(` arguments `)` parses to Call whose function is the tree of that form.
C19_AnyCallee ==
    (pc = "advance" /\ attempts = 1 /\ given.family = "callee") =>
        /\ last.ok
        /\ program = <<ExpressionStmt(Call(given.function, given.arguments))>>

\* C19 witness: a function literal called with two arguments has been parsed to
\* a Call of the function literal
C19_Witness ==
    /\ pc = "advance" /\ attempts = 1 /\ given.family = "callee"
    /\ given.function[1] = "Function" /\ Len(given.arguments) = 2
    /\ program[1][2][1] = "Call" /\ program[1][2][2] = given.function

----------------------------------------------------------------------------
(* What the resynchronisation skips after a statement that parsed.          *)

\* C20: whenever a top-level parse_statement returns Ok, current_token is `;`
\* or peeking_token is `;` or the end-marker, so that advance_tokens discards
\* nothing but the statement's last token and one closing `;`.
C20_NothingDiscarded ==
    (pc = "advance" /\ last.ok) =>
        \/ last.current_token = tSemi
        \/ last.peeking_token \in {tSemi, EOF}

\* C20, its example: two expressions with no `;` between them do not give a
\* program without error that lacks the second one.
C20_TwoExpressions ==
    (pc = "done" /\ given.family = "any" /\ input = <<ia, n(5)>>) =>
        (errors # <<>> \/ Len(program) = 2)

====
